---- MODULE Spec2Model ----
(***************************************************************************)
(* Model of the secure settings store of src/main.js: secureStore.save,    *)
(* secureStore.load, secureStore.delete, loadSettings and saveSettings,    *)
(* over a filesystem of three paths and a platform keystore whose          *)
(* availability is an input of every probe.                                *)
(***************************************************************************)
EXTENDS Integers, Sequences, FiniteSets, TLC

VARIABLES fs, defaultSettings, hist, nCalls, nFaults, settings, ready, clicks

vars == <<fs, defaultSettings, hist, nCalls, nFaults, settings, ready, clicks>>

(***************************************************************************)
(* Bounds of the exploration.                                              *)
(***************************************************************************)
MaxOps == 3
MaxFaults == 1
MaxClicks == 2

(***************************************************************************)
(* Paths.  A path is the sequence of its name components, so that the      *)
(* string operations of the code (replace, +) are computed, not assumed.   *)
(***************************************************************************)
settingsPath == <<"userData", "settings", ".enc">>
legacySettingsPath == <<"userData", "settings", ".json">>

RECURSIVE replaceFirst(_, _, _)
replaceFirst(p, from, to) ==
  IF p = <<>> THEN <<>>
  ELSE IF Head(p) = from THEN <<to>> \o Tail(p)
  ELSE <<Head(p)>> \o replaceFirst(Tail(p), from, to)

legacyPathOf(filePath) == replaceFirst(filePath, ".enc", ".json")
fallbackPathOf(filePath) == filePath \o <<".json">>

Paths == {settingsPath, legacySettingsPath, fallbackPathOf(settingsPath)}

(***************************************************************************)
(* Settings objects are functions from a set of keys to booleans.          *)
(***************************************************************************)
SchemaKeys == {"startMinimized", "minimizeToTray", "startAtLogin"}
KeyOrder == <<"startMinimized", "minimizeToTray", "startAtLogin", "extra">>

DefaultSettingsValue ==
  [k \in SchemaKeys |->
     IF k = "startMinimized" THEN FALSE
     ELSE IF k = "minimizeToTray" THEN TRUE
     ELSE FALSE]

EmptyObject == [k \in {} |-> FALSE]

\* { ...a, ...b }
spread(a, b) ==
  [k \in (DOMAIN a) \cup (DOMAIN b) |-> IF k \in DOMAIN b THEN b[k] ELSE a[k]]

(***************************************************************************)
(* Bytes on disk and strings in memory.  kind is one of                    *)
(*   "absent"  no file                                                     *)
(*   "json"    JSON text; text is the sequence of <<key, value>> members   *)
(*   "enc"     a safeStorage blob of the JSON text, under key              *)
(*   "garbage" random bytes, "empty" zero bytes, "partial" a torn write,   *)
(*   "malformed" text that is not JSON                                     *)
(***************************************************************************)
OwnKey == "own"
ForeignKey == "foreign"

Bytes(kind, key, text) == [kind |-> kind, key |-> key, text |-> text]
NoFile == Bytes("absent", "", <<>>)
Garbage == Bytes("garbage", "", <<>>)
ZeroBytes == Bytes("empty", "", <<>>)
Partial == Bytes("partial", "", <<>>)
Malformed == Bytes("malformed", "", <<>>)

RECURSIVE members(_, _)
members(obj, i) ==
  IF i > Len(KeyOrder) THEN <<>>
  ELSE (IF KeyOrder[i] \in DOMAIN obj
        THEN << <<KeyOrder[i], obj[KeyOrder[i]]>> >>
        ELSE <<>>) \o members(obj, i + 1)

JSONstringify(obj) == Bytes("json", "", members(obj, 1))

JSONparseThrows(str) == str.kind # "json"

JSONparse(str) ==
  LET t == str.text
      last(k) == CHOOSE i \in DOMAIN t :
                   t[i][1] = k /\ \A j \in DOMAIN t : j > i => t[j][1] # k
  IN [k \in {t[i][1] : i \in DOMAIN t} |-> t[last(k)][2]]

encryptString(str) == Bytes("enc", OwnKey, str.text)

decryptStringThrows(blob) == ~(blob.kind = "enc" /\ blob.key = OwnKey)

decryptString(blob) == Bytes("json", "", blob.text)

existsSync(f, p) == f[p].kind # "absent"

(***************************************************************************)
(* Environment of one call: the answers of the capability probe, in the    *)
(* order the call asks, and the one I/O step that fails (or "none").       *)
(***************************************************************************)
ProbeSeqs == {<<a, b, c>> : a, b, c \in BOOLEAN}
Faults == {"none", "read", "decrypt", "stringify", "encrypt", "write", "writeTorn",
           "unlink"}

\* outcome of a block of code: filesystem, thrown?, value, probes asked, fault hit
Outcome(f, thrown, val, probes, fault) ==
  [fs |-> f, thrown |-> thrown, val |-> val, probes |-> probes, fault |-> fault]

writeFileSync(f, p, bytes, probes, fault) ==
  IF fault = "write" THEN Outcome(f, TRUE, FALSE, probes, "write")
  ELSE IF fault = "writeTorn"
       THEN Outcome([f EXCEPT ![p] = Partial], TRUE, FALSE, probes, "writeTorn")
       ELSE Outcome([f EXCEPT ![p] = bytes], FALSE, TRUE, probes, "none")

\* saveCatch with true returned from the catch block as well
saveCatchReportsSuccess(t) == Outcome(t.fs, FALSE, TRUE, t.probes, t.fault)

\* saveTry with the ciphertext written to the '.json'-suffixed path
saveTryCipherToFallback(f, filePath, data, probes, fault) ==
  IF fault = "stringify" THEN Outcome(f, TRUE, FALSE, <<>>, "stringify")
  ELSE IF Head(probes)
  THEN IF fault = "encrypt"
       THEN Outcome(f, TRUE, FALSE, <<TRUE>>, "encrypt")
       ELSE writeFileSync(f, fallbackPathOf(filePath),
                          encryptString(JSONstringify(data)), <<TRUE>>, fault)
  ELSE writeFileSync(f, fallbackPathOf(filePath), JSONstringify(data), <<FALSE>>, fault)

\* saveTry with the plaintext fallback written to filePath itself
saveTryPlainToCurrent(f, filePath, data, probes, fault) ==
  IF fault = "stringify" THEN Outcome(f, TRUE, FALSE, <<>>, "stringify")
  ELSE IF Head(probes)
  THEN IF fault = "encrypt"
       THEN Outcome(f, TRUE, FALSE, <<TRUE>>, "encrypt")
       ELSE writeFileSync(f, filePath, encryptString(JSONstringify(data)),
                          <<TRUE>>, fault)
  ELSE writeFileSync(f, filePath, JSONstringify(data), <<FALSE>>, fault)

\* body of the try block of secureStore.save; JSON.stringify(data) comes
\* first and throws for a value that has no JSON text
saveTry(f, filePath, data, probes, fault) ==
  IF fault = "stringify" THEN Outcome(f, TRUE, FALSE, <<>>, "stringify")
  ELSE IF Head(probes)
  THEN IF fault = "encrypt"
       THEN Outcome(f, TRUE, FALSE, <<TRUE>>, "encrypt")
       ELSE writeFileSync(f, filePath, encryptString(JSONstringify(data)),
                          <<TRUE>>, fault)
  ELSE writeFileSync(f, fallbackPathOf(filePath), JSONstringify(data), <<FALSE>>, fault)

\* return true at the end of the try block, return false in the catch
saveCatch(t) == Outcome(t.fs, FALSE, ~t.thrown, t.probes, t.fault)

\* secureStore.save
secureStoreSave(f, filePath, data, probes, fault) ==
  saveCatch(saveTry(f, filePath, data, probes, fault))

Null == [isNull |-> TRUE, obj |-> EmptyObject]
Value(obj) == [isNull |-> FALSE, obj |-> obj]

\* unlinkLegacy with the legacy file left in place
unlinkLegacySkipped(s, legacyPath, parsed, asked, fault) ==
  Outcome(s.fs, FALSE, Value(parsed), asked \o s.probes, s.fault)

\* what follows secureStore.save(filePath, parsed) in the migration, s being
\* the outcome of that save: fs.unlinkSync(legacyPath), then return parsed
unlinkLegacy(s, legacyPath, parsed, asked, fault) ==
  IF fault = "unlink"
  THEN Outcome(s.fs, TRUE, Null, asked \o s.probes, "unlink")
  ELSE Outcome([s.fs EXCEPT ![legacyPath] = NoFile], FALSE, Value(parsed),
               asked \o s.probes, s.fault)

\* loadLegacy creating an empty encrypted settings file on the first run
loadLegacyInitialises(f, filePath, asked, probes, fault) ==
  IF ~existsSync(f, legacyPathOf(filePath))
  THEN Outcome([f EXCEPT ![filePath] = encryptString(JSONstringify(EmptyObject))],
               FALSE, Null, asked, "none")
  ELSE IF fault = "read" THEN Outcome(f, TRUE, Null, asked, "read")
  ELSE IF JSONparseThrows(f[legacyPathOf(filePath)])
       THEN Outcome(f, TRUE, Null, asked, "none")
  ELSE IF ~Head(probes)
       THEN Outcome(f, FALSE, Value(JSONparse(f[legacyPathOf(filePath)])),
                    asked \o <<FALSE>>, "none")
  ELSE unlinkLegacy(secureStoreSave(f, filePath, JSONparse(f[legacyPathOf(filePath)]),
                                    Tail(probes), fault),
                    legacyPathOf(filePath), JSONparse(f[legacyPathOf(filePath)]),
                    asked \o <<TRUE>>, fault)

\* loadLegacy with the migration performed whatever the probe answers
loadLegacyAlwaysMigrates(f, filePath, asked, probes, fault) ==
  IF ~existsSync(f, legacyPathOf(filePath)) THEN Outcome(f, FALSE, Null, asked, "none")
  ELSE IF fault = "read" THEN Outcome(f, TRUE, Null, asked, "read")
  ELSE IF JSONparseThrows(f[legacyPathOf(filePath)])
       THEN Outcome(f, TRUE, Null, asked, "none")
  ELSE unlinkLegacy(secureStoreSave(f, filePath, JSONparse(f[legacyPathOf(filePath)]),
                                    Tail(probes), fault),
                    legacyPathOf(filePath), JSONparse(f[legacyPathOf(filePath)]),
                    asked \o <<Head(probes)>>, fault)

\* loadLegacy with the migration's save encrypting on the answer load got,
\* without a query of its own
loadLegacyReusesAnswer(f, filePath, asked, probes, fault) ==
  IF ~existsSync(f, legacyPathOf(filePath)) THEN Outcome(f, FALSE, Null, asked, "none")
  ELSE IF fault = "read" THEN Outcome(f, TRUE, Null, asked, "read")
  ELSE IF JSONparseThrows(f[legacyPathOf(filePath)])
       THEN Outcome(f, TRUE, Null, asked, "none")
  ELSE IF ~Head(probes)
       THEN Outcome(f, FALSE, Value(JSONparse(f[legacyPathOf(filePath)])),
                    asked \o <<FALSE>>, "none")
  ELSE unlinkLegacy([secureStoreSave(f, filePath, JSONparse(f[legacyPathOf(filePath)]),
                                     <<TRUE>>, fault) EXCEPT !.probes = <<>>],
                    legacyPathOf(filePath), JSONparse(f[legacyPathOf(filePath)]),
                    asked \o <<TRUE>>, fault)

\* the legacy branch of secureStore.load
loadLegacy(f, filePath, asked, probes, fault) ==
  IF ~existsSync(f, legacyPathOf(filePath)) THEN Outcome(f, FALSE, Null, asked, "none")
  ELSE IF fault = "read" THEN Outcome(f, TRUE, Null, asked, "read")
  ELSE IF JSONparseThrows(f[legacyPathOf(filePath)])
       THEN Outcome(f, TRUE, Null, asked, "none")
  ELSE IF ~Head(probes)
       THEN Outcome(f, FALSE, Value(JSONparse(f[legacyPathOf(filePath)])),
                    asked \o <<FALSE>>, "none")
  ELSE unlinkLegacy(secureStoreSave(f, filePath, JSONparse(f[legacyPathOf(filePath)]),
                                    Tail(probes), fault),
                    legacyPathOf(filePath), JSONparse(f[legacyPathOf(filePath)]),
                    asked \o <<TRUE>>, fault)

\* body of the try block of secureStore.load
loadTry(f, filePath, probes, fault) ==
  IF ~existsSync(f, filePath) THEN loadLegacy(f, filePath, <<>>, probes, fault)
  ELSE IF fault = "read" THEN Outcome(f, TRUE, Null, <<>>, "read")
  ELSE IF ~Head(probes) THEN loadLegacy(f, filePath, <<FALSE>>, Tail(probes), fault)
  ELSE IF fault = "decrypt" THEN Outcome(f, TRUE, Null, <<TRUE>>, "decrypt")
  ELSE IF decryptStringThrows(f[filePath]) THEN Outcome(f, TRUE, Null, <<TRUE>>, "none")
  ELSE IF JSONparseThrows(decryptString(f[filePath]))
       THEN Outcome(f, TRUE, Null, <<TRUE>>, "none")
  ELSE Outcome(f, FALSE, Value(JSONparse(decryptString(f[filePath]))), <<TRUE>>, "none")

\* loadCatch without the catch: an exception reaches the caller
loadCatchRethrows(t, defaultValue) ==
  Outcome(t.fs, t.thrown, IF t.thrown THEN defaultValue ELSE t.val, t.probes, t.fault)

\* the catch of secureStore.load logs and falls to return defaultValue
loadCatch(t, defaultValue) ==
  Outcome(t.fs, FALSE, IF t.thrown THEN defaultValue ELSE t.val, t.probes, t.fault)

\* secureStore.load
secureStoreLoad(f, filePath, defaultValue, probes, fault) ==
  loadCatch(loadTry(f, filePath, probes, fault), defaultValue)

\* deleteLegacy with the legacy file left on disk
deleteLegacyKept(f1, legacyPath, fault) ==
  Outcome(f1, FALSE, TRUE, <<>>, "none")

\* what follows the first unlink of secureStore.delete, f1 being the disk then
deleteLegacy(f1, legacyPath, fault) ==
  IF existsSync(f1, legacyPath) /\ fault = "unlink"
  THEN Outcome(f1, FALSE, FALSE, <<>>, "unlink")
  ELSE Outcome([f1 EXCEPT ![legacyPath] = NoFile], FALSE, TRUE, <<>>, "none")

\* secureStore.delete
secureStoreDelete(f, filePath, fault) ==
  IF existsSync(f, filePath) /\ fault = "unlink"
  THEN Outcome(f, FALSE, FALSE, <<>>, "unlink")
  ELSE deleteLegacy([f EXCEPT ![filePath] = NoFile], legacyPathOf(filePath), fault)

\* mergeLoaded with the spread reversed: { ...loaded, ...defaultSettings }
mergeLoadedDefaultsWin(l, defaults) ==
  [fs |-> l.fs, raised |-> l.thrown, loaded |-> l.val,
   val |-> IF ~l.val.isNull THEN spread(l.val.obj, defaults) ELSE defaults,
   probes |-> l.probes, fault |-> l.fault]

\* if (loaded) return { ...defaultSettings, ...loaded }; return defaultSettings
mergeLoaded(l, defaults) ==
  [fs |-> l.fs, raised |-> l.thrown, loaded |-> l.val,
   val |-> IF ~l.val.isNull THEN spread(defaults, l.val.obj) ELSE defaults,
   probes |-> l.probes, fault |-> l.fault]

\* loadSettings()
loadSettings(f, defaults, probes, fault) ==
  mergeLoaded(secureStoreLoad(f, settingsPath, Null, probes, fault), defaults)

\* saveSettings(settings)
saveSettings(f, value, probes, fault) ==
  secureStoreSave(f, settingsPath, value, probes, fault)

(***************************************************************************)
(* The module-level variable settings.  It is a reference: it either names *)
(* the object defaultSettings itself (alias) or an object of its own.      *)
(***************************************************************************)
SameAsDefaults == [alias |-> TRUE, own |-> EmptyObject]
OwnObject(obj) == [alias |-> FALSE, own |-> obj]

\* the object settings refers to
deref(s, d) == IF s.alias THEN d ELSE s.own

\* settings = loadSettings(): the spread made a new object, or the function
\* returned defaultSettings itself
bind(l) == IF l.loaded.isNull THEN SameAsDefaults ELSE OwnObject(l.val)

\* settings[k] = checked, s and d being settings and defaultSettings
assign(s, d, k, checked) ==
  IF s.alias
  THEN [settings |-> s, defaultSettings |-> [d EXCEPT ![k] = checked]]
  ELSE [settings |-> [s EXCEPT !.own[k] = checked], defaultSettings |-> d]

\* saveSettings(settings) after the assignment m
thenSave(m, f, avail, fault) ==
  [settings |-> m.settings, defaultSettings |-> m.defaultSettings,
   arg |-> deref(m.settings, m.defaultSettings),
   out |-> saveSettings(f, deref(m.settings, m.defaultSettings), <<avail>>, fault)]

\* click with saveSettings called before the assignment
clickSavesFirst(f, s, d, k, checked, avail, fault) ==
  [settings |-> assign(s, d, k, checked).settings,
   defaultSettings |-> assign(s, d, k, checked).defaultSettings,
   arg |-> deref(s, d),
   out |-> saveSettings(f, deref(s, d), <<avail>>, fault)]

\* click handler of a checkbox item of the tray menu:
\*   settings[k] = menuItem.checked; saveSettings(settings);
click(f, s, d, k, checked, avail, fault) ==
  thenSave(assign(s, d, k, checked), f, avail, fault)

(***************************************************************************)
(* Values used to populate the disk and the arguments of save.             *)
(***************************************************************************)
LegacyObject == [k \in {"startMinimized", "extra"} |-> TRUE]
StoredObject == [k \in {"minimizeToTray"} |-> FALSE]

\* the in-memory settings a caller holds: a loaded object over the defaults.
\* It differs from the defaults and from every value the disk starts with.
SaveValues == {spread(DefaultSettingsValue, LegacyObject)}

InitCurrent == {NoFile, encryptString(JSONstringify(StoredObject)),
                Bytes("enc", ForeignKey, members(StoredObject, 1)),
                Garbage, ZeroBytes}
InitLegacy == {NoFile, JSONstringify(LegacyObject), Malformed, ZeroBytes}

(***************************************************************************)
(* History: the last three calls, the number of calls made and the number  *)
(* of them in which a step failed.                                         *)
(***************************************************************************)
Call(op, pre, arg, ok, loaded, val, raised, probes, fault) ==
  [op |-> op, pre |-> pre, arg |-> arg, ok |-> ok,
   loaded |-> loaded, val |-> val, raised |-> raised,
   probes |-> probes, fault |-> fault]

\* the disk as call i left it
Post(i) == IF i < Len(hist) THEN hist[i + 1].pre ELSE fs

Remember(c) ==
  /\ hist' = IF Len(hist) < 3 THEN Append(hist, c) ELSE Append(Tail(hist), c)
  /\ nCalls' = nCalls + 1
  /\ nFaults' = IF c.fault = "none" THEN nFaults ELSE nFaults + 1

FaultChoices == IF nFaults < MaxFaults THEN Faults ELSE {"none"}

\* the steps of save and of delete that can fail
SaveFaults == {"none", "stringify", "encrypt", "write", "writeTorn"}
\* the value load saves in the migration is the result of JSON.parse, which
\* always has a JSON text
LoadFaults == Faults \ {"stringify"}
DeleteFaults == {"none", "unlink"}

Init ==
  /\ fs \in {f \in [Paths -> InitCurrent \cup InitLegacy] :
               /\ f[settingsPath] \in InitCurrent
               /\ f[legacySettingsPath] \in InitLegacy
               /\ f[fallbackPathOf(settingsPath)] = NoFile}
  /\ defaultSettings = DefaultSettingsValue
  /\ hist = <<>>
  /\ nCalls = 0
  /\ nFaults = 0
  /\ settings = SameAsDefaults
  /\ ready = FALSE
  /\ clicks = 0

LoadSettings ==
  /\ nCalls < MaxOps
  /\ \E probes \in ProbeSeqs, fault \in FaultChoices \cap LoadFaults :
       \E r \in {loadSettings(fs, defaultSettings, probes, fault)} :
          /\ (fault # "none" => r.fault = fault)
          /\ probes = r.probes \o [i \in 1..(3 - Len(r.probes)) |-> FALSE]
          /\ fs' = r.fs
          /\ Remember(Call("load", fs, EmptyObject, TRUE,
                           r.loaded, r.val, r.raised, r.probes, r.fault))
  /\ UNCHANGED <<defaultSettings, settings, ready, clicks>>

SaveSettings ==
  /\ nCalls < MaxOps
  /\ \E value \in SaveValues, avail \in BOOLEAN,
        fault \in FaultChoices \cap SaveFaults :
       \E r \in {saveSettings(fs, value, <<avail>>, fault)} :
          /\ (fault # "none" => r.fault = fault)
          /\ (r.probes = <<>> => ~avail)
          /\ fs' = r.fs
          /\ Remember(Call("save", fs, value, r.val,
                           Null, EmptyObject, r.thrown, r.probes, r.fault))
  /\ UNCHANGED <<defaultSettings, settings, ready, clicks>>

Delete ==
  /\ nCalls < MaxOps
  /\ \E fault \in FaultChoices \cap DeleteFaults :
       \E r \in {secureStoreDelete(fs, settingsPath, fault)} :
          /\ (fault # "none" => r.fault = fault)
          /\ fs' = r.fs
          /\ Remember(Call("delete", fs, EmptyObject, r.val,
                           Null, EmptyObject, r.thrown, r.probes, r.fault))
  /\ UNCHANGED <<defaultSettings, settings, ready, clicks>>

Next == LoadSettings \/ SaveSettings \/ Delete

Spec == Init /\ [][Next]_vars

(***************************************************************************)
(* The application: app.whenReady() loads the settings once, then the      *)
(* checkbox items of the tray menu are clicked.  Each handler runs to its  *)
(* end before the next event is taken.  A click flips the item, so         *)
(* menuItem.checked is the negation of the value the setting has.          *)
(***************************************************************************)
WhenReady ==
  /\ ~ready
  /\ \E probes \in ProbeSeqs, fault \in FaultChoices \cap LoadFaults :
       \E r \in {loadSettings(fs, defaultSettings, probes, fault)} :
          /\ (fault # "none" => r.fault = fault)
          /\ probes = r.probes \o [i \in 1..(3 - Len(r.probes)) |-> FALSE]
          /\ fs' = r.fs
          /\ settings' = bind(r)
          /\ Remember(Call("load", fs, EmptyObject, TRUE,
                           r.loaded, r.val, r.raised, r.probes, r.fault))
  /\ ready' = TRUE
  /\ UNCHANGED <<defaultSettings, clicks>>

Click(k) ==
  /\ ready
  /\ clicks < MaxClicks
  /\ \E avail \in BOOLEAN, fault \in FaultChoices \cap SaveFaults :
       \E r \in {click(fs, settings, defaultSettings, k,
                       ~deref(settings, defaultSettings)[k], avail, fault)} :
          /\ (fault # "none" => r.out.fault = fault)
          /\ (r.out.probes = <<>> => ~avail)
          /\ fs' = r.out.fs
          /\ settings' = r.settings
          /\ defaultSettings' = r.defaultSettings
          /\ Remember(Call("save", fs, r.arg, r.out.val,
                           Null, EmptyObject, r.out.thrown, r.out.probes,
                           r.out.fault))
  /\ clicks' = clicks + 1
  /\ UNCHANGED ready

\* this handler goes on to updateAutoLaunch(), which reads settings and
\* writes neither settings nor the settings files
ClickStartAtLogin == Click("startAtLogin")

ClickStartMinimized == Click("startMinimized")

ClickMinimizeToTray == Click("minimizeToTray")

AppNext ==
  WhenReady \/ ClickStartAtLogin \/ ClickStartMinimized \/ ClickMinimizeToTray

AppSpec == Init /\ [][AppNext]_vars

(***************************************************************************)
(* Vocabulary of the properties.                                           *)
(***************************************************************************)
legacyPath == legacyPathOf(settingsPath)
fallbackPath == fallbackPathOf(settingsPath)

Calls == DOMAIN hist
IsLoad(i) == i \in Calls /\ hist[i].op = "load"
IsSave(i) == i \in Calls /\ hist[i].op = "save"

IsDelete(i) == i \in Calls /\ hist[i].op = "delete"

\* every probe the call asked was answered b
Answered(c, b) == \A j \in DOMAIN c.probes : c.probes[j] = b
Clean(c) == c.fault = "none"

\* the current path of f holds an encrypted copy of v
HoldsEncrypted(f, v) ==
  /\ ~decryptStringThrows(f[settingsPath])
  /\ ~JSONparseThrows(decryptString(f[settingsPath]))
  /\ JSONparse(decryptString(f[settingsPath])) = v

HoldsLegacy(f) == ~JSONparseThrows(f[legacyPath])
LegacyValue(f) == JSONparse(f[legacyPath])

OnlyLegacy(f) ==
  /\ ~existsSync(f, settingsPath)
  /\ ~existsSync(f, fallbackPath)
  /\ HoldsLegacy(f)

NoFiles(f) == \A p \in Paths : ~existsSync(f, p)

Corrupt(b) == b.kind \in {"garbage", "empty", "partial", "malformed"}

\* C1: after every load() that found a readable legacy file, the legacy
\* file still exists or the current path holds an encrypted copy of its
\* value, whatever the outcome of the write inside the migration.
C1_MigrationKeepsACopy ==
  \A i \in Calls :
    (IsLoad(i) /\ HoldsLegacy(hist[i].pre))
      => \/ existsSync(Post(i), legacyPath)
         \/ HoldsEncrypted(Post(i), LegacyValue(hist[i].pre))

\* C2: with no file on disk and encryption unavailable in both calls, a
\* successful save(v) followed by load() returns v merged onto the defaults.
C2_FallbackRoundTrip ==
  \A i \in Calls :
    (/\ IsSave(i) /\ IsLoad(i + 1)
     /\ NoFiles(hist[i].pre)
     /\ Answered(hist[i], FALSE) /\ Answered(hist[i + 1], FALSE)
     /\ Clean(hist[i]) /\ Clean(hist[i + 1]))
      => hist[i + 1].val = spread(defaultSettings, hist[i].arg)

\* C3: with encryption available in both calls and both succeeding,
\* save(v) followed by load() returns v merged onto the defaults.
C3_RoundTrip ==
  \A i \in Calls :
    (/\ IsSave(i) /\ IsLoad(i + 1)
     /\ Answered(hist[i], TRUE) /\ Answered(hist[i + 1], TRUE)
     /\ Clean(hist[i]) /\ Clean(hist[i + 1])
     /\ hist[i].ok)
      => hist[i + 1].val = spread(defaultSettings, hist[i].arg)

C3_Witness ==
  \E i \in Calls :
    /\ IsSave(i) /\ IsLoad(i + 1)
    /\ Answered(hist[i], TRUE) /\ Answered(hist[i + 1], TRUE)
    /\ Clean(hist[i]) /\ Clean(hist[i + 1])
    /\ hist[i].ok
    /\ hist[i].arg # defaultSettings
    /\ hist[i + 1].val = hist[i].arg

\* C4: when the current file exists and cannot be decrypted (corrupt blob,
\* foreign key, keystore failing or reported unavailable), load() returns
\* the defaults and not the value of a legacy file.
C4_NoFallThrough ==
  \A i \in Calls :
    (/\ IsLoad(i)
     /\ existsSync(hist[i].pre, settingsPath)
     /\ \/ decryptStringThrows(hist[i].pre[settingsPath])
        \/ hist[i].fault = "decrypt"
        \/ (hist[i].probes # <<>> /\ ~hist[i].probes[1]))
      => hist[i].val = defaultSettings

\* C5: from a disk holding only a legacy file with value v, with encryption
\* available and no I/O step failing, load() returns v merged onto the
\* defaults, removes the legacy file and leaves one encrypted file holding
\* v; a second load() returns the same value, asks the probe once (no
\* second migration), raises nothing and leaves the disk as it was.
C5_MigrationOnce ==
  \A i \in Calls :
    (/\ IsLoad(i)
     /\ OnlyLegacy(hist[i].pre)
     /\ Answered(hist[i], TRUE) /\ Clean(hist[i]))
      => /\ hist[i].val = spread(defaultSettings, LegacyValue(hist[i].pre))
         /\ ~hist[i].raised
         /\ ~existsSync(Post(i), legacyPath)
         /\ ~existsSync(Post(i), fallbackPath)
         /\ HoldsEncrypted(Post(i), LegacyValue(hist[i].pre))
         /\ (/\ IsLoad(i + 1)
             /\ Answered(hist[i + 1], TRUE) /\ Clean(hist[i + 1]))
              => /\ hist[i + 1].val = hist[i].val
                 /\ Post(i + 1) = hist[i + 1].pre
                 /\ Len(hist[i + 1].probes) = 1
                 /\ ~hist[i + 1].loaded.isNull
                 /\ ~hist[i + 1].raised

C5_Witness ==
  \E i \in Calls :
    /\ IsLoad(i) /\ IsLoad(i + 1)
    /\ OnlyLegacy(hist[i].pre)
    /\ Answered(hist[i], TRUE) /\ Clean(hist[i])
    /\ Answered(hist[i + 1], TRUE) /\ Clean(hist[i + 1])
    /\ hist[i].probes = <<TRUE, TRUE>>
    /\ hist[i + 1].val = spread(defaultSettings, LegacyObject)
    /\ fs[settingsPath] = encryptString(JSONstringify(LegacyObject))

\* C6: two consecutive load() calls under one answer of the probe return
\* the same Settings and the second leaves the disk as the first left it,
\* also when the write or the deletion of the first call's migration fails
\* (every read and decryption succeeding, and no step of the second call
\* failing).
C6_LoadIdempotent ==
  \A i \in Calls :
    (/\ IsLoad(i) /\ IsLoad(i + 1)
     /\ hist[i].fault \in {"none", "encrypt", "write", "writeTorn", "unlink"}
     /\ Clean(hist[i + 1])
     /\ \E b \in BOOLEAN : Answered(hist[i], b) /\ Answered(hist[i + 1], b))
      => /\ hist[i + 1].val = hist[i].val
         /\ Post(i + 1) = Post(i)

\* C7: with no current file, a legacy file and encryption unavailable,
\* load() leaves every file as it was and creates none, and returns the
\* legacy value merged onto the defaults when the file is readable JSON.
C7_NoMigrationWithoutCapability ==
  \A i \in Calls :
    (/\ IsLoad(i)
     /\ ~existsSync(hist[i].pre, settingsPath)
     /\ existsSync(hist[i].pre, legacyPath)
     /\ Answered(hist[i], FALSE))
      => /\ Post(i) = hist[i].pre
         /\ (HoldsLegacy(hist[i].pre) /\ Clean(hist[i]))
              => hist[i].val = spread(defaultSettings, LegacyValue(hist[i].pre))

C7_Witness ==
  \E i \in Calls :
    /\ IsLoad(i)
    /\ ~existsSync(hist[i].pre, settingsPath)
    /\ HoldsLegacy(hist[i].pre)
    /\ hist[i].probes = <<FALSE>>
    /\ hist[i].val = spread(defaultSettings, LegacyObject)
    /\ Post(i)[legacyPath] = JSONstringify(LegacyObject)

\* C8: the file at the current path never holds the plaintext
\* serialization: whatever a call writes there is a blob made by
\* encryptString (or a torn prefix of one), for every answer of the probe.
C8_NoPlaintextInCurrentSlot ==
  /\ fs[settingsPath].kind # "json"
  /\ \A i \in Calls :
       Post(i)[settingsPath] # hist[i].pre[settingsPath]
         => \/ Post(i)[settingsPath] \in {NoFile, Partial}
            \/ /\ Post(i)[settingsPath].kind = "enc"
               /\ Post(i)[settingsPath].key = OwnKey

C8_Witness ==
  \E i, j \in Calls :
    /\ IsLoad(i)
    /\ hist[i].probes = <<TRUE, FALSE>>
    /\ Post(i)[fallbackPath].kind = "json"
    /\ IsSave(j)
    /\ hist[j].probes = <<TRUE>>
    /\ Post(j)[settingsPath] = encryptString(JSONstringify(hist[j].arg))

\* C9: load() never raises, and it returns the defaults when a read fails
\* or when every file present at the current and legacy paths is random
\* bytes, zero bytes, a torn write or malformed JSON.
C9_FailSafeLoad ==
  \A i \in Calls :
    IsLoad(i)
      => /\ ~hist[i].raised
         /\ (\/ hist[i].fault = "read"
             \/ \A p \in {settingsPath, legacyPath} :
                  ~existsSync(hist[i].pre, p) \/ Corrupt(hist[i].pre[p]))
              => /\ hist[i].val = defaultSettings
                 /\ hist[i].loaded.isNull

C9_Witness ==
  \E i, j \in Calls :
    /\ IsLoad(i)
    /\ hist[i].pre[settingsPath] = Garbage
    /\ hist[i].pre[legacyPath] \in {Malformed, ZeroBytes}
    /\ hist[i].probes = <<FALSE>>
    /\ hist[i].val = defaultSettings
    /\ IsLoad(j)
    /\ hist[j].fault = "read"

\* C10: load() returns the stored object spread over the defaults: every
\* key of the stored object keeps its stored value, unknown keys included,
\* every other default key has its default value, the three schema keys
\* are always defined, and an unknown key is still returned by a load()
\* that follows a successful save() of the loaded settings.
C10_ShallowMerge ==
  \A i \in Calls :
    IsLoad(i)
      => /\ SchemaKeys \subseteq DOMAIN hist[i].val
         /\ ~hist[i].loaded.isNull
              => LET s == hist[i].loaded.obj
                 IN /\ \/ HoldsEncrypted(hist[i].pre, s)
                       \/ HoldsLegacy(hist[i].pre) /\ s = LegacyValue(hist[i].pre)
                    /\ DOMAIN hist[i].val = DOMAIN s \cup DOMAIN defaultSettings
                    /\ \A k \in DOMAIN s : hist[i].val[k] = s[k]
                    /\ \A k \in DOMAIN defaultSettings \ DOMAIN s :
                         hist[i].val[k] = defaultSettings[k]
                    /\ (/\ IsSave(i + 1) /\ IsLoad(i + 2)
                        /\ hist[i + 1].arg = hist[i].val
                        /\ hist[i + 1].ok
                        /\ Clean(hist[i]) /\ Clean(hist[i + 1]) /\ Clean(hist[i + 2])
                        /\ \E b \in BOOLEAN :
                             \A j \in {i, i + 1, i + 2} : Answered(hist[j], b))
                         => \A k \in DOMAIN s \ SchemaKeys :
                              /\ k \in DOMAIN hist[i + 2].val
                              /\ hist[i + 2].val[k] = s[k]

C10_Witness ==
  \E i \in Calls :
    /\ IsLoad(i) /\ IsSave(i + 1) /\ IsLoad(i + 2)
    /\ hist[i].loaded = Value(LegacyObject)
    /\ hist[i].val = [k \in SchemaKeys \cup {"extra"} |->
                        IF k \in {"startMinimized", "extra", "minimizeToTray"}
                        THEN TRUE ELSE FALSE]
    /\ hist[i + 1].arg = hist[i].val
    /\ hist[i + 1].probes = <<TRUE>>
    /\ hist[i + 1].ok
    /\ "extra" \in DOMAIN hist[i + 2].val
    /\ hist[i + 2].loaded.obj = hist[i].val

\* C11: a delete() in which no unlink fails returns true, leaves no file at
\* the current and legacy paths and writes nothing; when neither file
\* exists it leaves the disk as it was, and a second delete() returns true
\* and changes nothing.
C11_DeleteIdempotent ==
  \A i \in Calls :
    (IsDelete(i) /\ Clean(hist[i]))
      => /\ hist[i].ok
         /\ ~hist[i].raised
         /\ ~existsSync(Post(i), settingsPath)
         /\ ~existsSync(Post(i), legacyPath)
         /\ Post(i)[fallbackPath] = hist[i].pre[fallbackPath]
         /\ (~existsSync(hist[i].pre, settingsPath)
             /\ ~existsSync(hist[i].pre, legacyPath)) => Post(i) = hist[i].pre
         /\ (IsDelete(i + 1) /\ Clean(hist[i + 1]))
              => hist[i + 1].ok /\ Post(i + 1) = Post(i)

C11_Witness ==
  \E i \in Calls :
    /\ IsDelete(i) /\ IsDelete(i + 1)
    /\ existsSync(hist[i].pre, settingsPath)
    /\ existsSync(hist[i].pre, legacyPath)
    /\ hist[i].ok /\ hist[i + 1].ok
    /\ ~existsSync(fs, settingsPath)
    /\ ~existsSync(fs, legacyPath)

\* C12: when neither the current nor the legacy file exists, load() returns
\* the default Settings, raises nothing and leaves every path as it was,
\* whatever the probe would answer.
C12_FirstRun ==
  \A i \in Calls :
    (/\ IsLoad(i)
     /\ ~existsSync(hist[i].pre, settingsPath)
     /\ ~existsSync(hist[i].pre, legacyPath))
      => /\ hist[i].val = defaultSettings
         /\ hist[i].val = DefaultSettingsValue
         /\ hist[i].loaded.isNull
         /\ ~hist[i].raised
         /\ Post(i) = hist[i].pre

C12_Witness ==
  \E i \in Calls :
    /\ IsLoad(i)
    /\ NoFiles(hist[i].pre)
    /\ hist[i].val = DefaultSettingsValue
    /\ NoFiles(Post(i))

\* C13: save() raises nothing and returns a boolean; it returns false
\* whenever serialization, encryption or the file write failed, and when it
\* returns true the bytes of the settings are at the path it wrote: the
\* ciphertext at the current path, or the plaintext at the fallback path.
C13_SaveNeverRaises ==
  \A i \in Calls :
    IsSave(i)
      => /\ ~hist[i].raised
         /\ hist[i].ok \in BOOLEAN
         /\ ~Clean(hist[i]) => ~hist[i].ok
         /\ hist[i].ok
              => \/ /\ hist[i].probes = <<TRUE>>
                    /\ Post(i)[settingsPath]
                         = encryptString(JSONstringify(hist[i].arg))
                 \/ /\ hist[i].probes = <<FALSE>>
                    /\ Post(i)[fallbackPath] = JSONstringify(hist[i].arg)

C13_Witness ==
  \E i \in Calls :
    /\ IsSave(i) /\ IsSave(i + 1) /\ IsSave(i + 2)
    /\ hist[i].fault = "stringify" /\ ~hist[i].ok
    /\ hist[i + 1].fault = "none" /\ hist[i + 1].ok
    /\ hist[i + 2].fault = "none" /\ hist[i + 2].ok
    /\ hist[i + 1].probes # hist[i + 2].probes

\* C14: a save() replaces its target atomically: after the call, failed or
\* not, every path holds either the bytes it held before or the complete new
\* bytes of the saved value, so a value that was readable at the current
\* path before a failed save() is still readable after it.
C14_AtomicReplace ==
  \A i \in Calls :
    IsSave(i)
      => /\ \A p \in Paths :
              \/ Post(i)[p] = hist[i].pre[p]
              \/ Post(i)[p] = encryptString(JSONstringify(hist[i].arg))
              \/ Post(i)[p] = JSONstringify(hist[i].arg)
         /\ \A v \in SaveValues \cup {StoredObject, LegacyObject} :
              (~hist[i].ok /\ HoldsEncrypted(hist[i].pre, v))
                => HoldsEncrypted(Post(i), v)

\* C15: when the current and the legacy file both exist, load() returns the
\* value decoded from the current file, or the defaults, and leaves the
\* legacy file as it was, whatever the probe answers.
C15_CurrentWins ==
  \A i \in Calls :
    (/\ IsLoad(i)
     /\ existsSync(hist[i].pre, settingsPath)
     /\ existsSync(hist[i].pre, legacyPath))
      => /\ Post(i)[legacyPath] = hist[i].pre[legacyPath]
         /\ \/ hist[i].val = defaultSettings
            \/ /\ ~hist[i].loaded.isNull
               /\ HoldsEncrypted(hist[i].pre, hist[i].loaded.obj)

\* call i encrypted: encryptString failed in it, or a path holds a
\* ciphertext after it that it did not hold before
Encrypted(i) ==
  \/ hist[i].fault = "encrypt"
  \/ /\ Post(i) # hist[i].pre
     /\ \E p \in Paths : Post(i)[p].kind = "enc" /\ Post(i)[p] # hist[i].pre[p]

\* load i decrypted: decryptString failed in it, or it returned a stored
\* value without touching the disk and that value is not the legacy file's
Decrypted(i) ==
  /\ IsLoad(i)
  /\ \/ hist[i].fault = "decrypt"
     \/ /\ ~hist[i].loaded.isNull
        /\ Post(i) = hist[i].pre
        /\ ~(HoldsLegacy(hist[i].pre)
             /\ LegacyValue(hist[i].pre) = hist[i].loaded.obj)

\* C16: the probe is queried afresh in every call: a call that encrypted
\* asked the probe as its last query and was answered true (a migrating
\* load asked twice, once for itself and once inside its save), a load that
\* decrypted asked once and was answered true, and a successful save wrote
\* the path its own single query selects, whatever earlier calls were told.
C16_ProbeNeverCached ==
  \A i \in Calls :
    /\ Encrypted(i)
         => /\ Len(hist[i].probes) >= 1
            /\ hist[i].probes[Len(hist[i].probes)]
            /\ IsLoad(i)
                 => /\ Len(hist[i].probes) >= 2
                    /\ hist[i].probes[Len(hist[i].probes) - 1]
    /\ Decrypted(i) => hist[i].probes = <<TRUE>>
    /\ (IsSave(i) /\ hist[i].ok)
         => /\ Len(hist[i].probes) = 1
            /\ hist[i].probes[1]
                 => Post(i)[settingsPath] = encryptString(JSONstringify(hist[i].arg))
            /\ ~hist[i].probes[1]
                 => /\ Post(i)[fallbackPath] = JSONstringify(hist[i].arg)
                    /\ Post(i)[settingsPath] = hist[i].pre[settingsPath]

C16_Witness ==
  \E i \in Calls :
    /\ IsLoad(i) /\ Encrypted(i) /\ hist[i].probes = <<TRUE, TRUE>>
    /\ IsSave(i + 1) /\ hist[i + 1].ok /\ hist[i + 1].probes = <<FALSE>>
    /\ Decrypted(i + 2) /\ hist[i + 2].probes = <<TRUE>>

\* C18: once a save(v) has returned true, every load() after it and before
\* the next save() returns v merged onto the defaults, or the defaults,
\* whatever the probe answers in each call.
C18_NoStaleRead ==
  \A i \in Calls : \A j \in Calls :
    (/\ IsSave(i) /\ hist[i].ok
     /\ i < j /\ IsLoad(j)
     /\ \A k \in Calls : (i < k /\ k < j) => ~IsSave(k))
      => \/ hist[j].val = spread(defaultSettings, hist[i].arg)
         \/ hist[j].val = defaultSettings

\* C19: after a delete() that returned true no path holds a file: the
\* current path, the legacy path and the fallback path save() writes when
\* encryption is unavailable are all absent.
C19_DeleteRemovesEverySavedFile ==
  \A i \in Calls :
    (IsDelete(i) /\ hist[i].ok)
      => \A p \in Paths : ~existsSync(Post(i), p)

\* C17: every click on a settings checkbox makes exactly one save() call,
\* inside the handler: after n clicks the store has been called n times on
\* top of the one load at start, the latest call is a save(), and the value
\* it was given is the in-memory settings object as it is now.
C17_OneSavePerToggle ==
  ready
    => /\ nCalls = clicks + 1
       /\ clicks > 0
            => /\ IsSave(Len(hist))
               /\ hist[Len(hist)].arg = deref(settings, defaultSettings)
               /\ ~hist[Len(hist)].raised

C17_Witness ==
  /\ clicks = 2
  /\ IsLoad(1) /\ IsSave(2) /\ IsSave(3)
  /\ hist[2].arg # hist[3].arg
  /\ ~hist[2].ok
  /\ hist[3].arg = deref(settings, defaultSettings)

\* C20: the object defaultSettings keeps the value it was defined with,
\* whatever loads and checkbox clicks have happened.
C20_DefaultsConstant == defaultSettings = DefaultSettingsValue

\* C21: a load() that found no current file and read and parsed the legacy
\* file returns the legacy value merged onto the defaults, whether or not
\* the encrypted write or the deletion of the migration failed.
C21_LegacyValueSurvivesMigration ==
  \A i \in Calls :
    (/\ IsLoad(i)
     /\ ~existsSync(hist[i].pre, settingsPath)
     /\ HoldsLegacy(hist[i].pre)
     /\ hist[i].fault # "read")
      => /\ ~hist[i].loaded.isNull
         /\ hist[i].val = spread(defaultSettings, LegacyValue(hist[i].pre))
====
